---- MODULE Spec2Model ----
(***************************************************************************)
(* A model of simple-bank: ledger entries (ledger.rs), a balance derived   *)
(* from its entry set (balance.rs) and the RwLock-guarded account store    *)
(* (storage.rs).                                                           *)
(*                                                                         *)
(* Decimal and f64 amounts are fixed-point integers counting units of      *)
(* 10^-Scale.  A raw amount of at most MaxRawLen characters has at most    *)
(* Scale fractional digits and far fewer than the 15 significant digits an *)
(* f64 carries, so parse::<f64> followed by Decimal::from_f64 is exact on  *)
(* it.  A longer raw amount of the model is a whole number of at most 16   *)
(* digits; its value is kept in two limbs of eight decimal digits and is   *)
(* rounded to the 53 bits of an f64 significand.                           *)
(***************************************************************************)
EXTENDS Integers, Sequences, FiniteSets, TLC

\* ------------------------------------------------------------- bounds

MaxRawLen == 3
NumIds == 2
NumStoreIds == 3
MaxSteps == 2
SeedDepth == 1

Scale == MaxRawLen

RECURSIVE Pow10(_)
Pow10(n) == IF n = 0 THEN 1 ELSE 10 * Pow10(n - 1)

Ids == 1 .. NumIds

StoreIds == 1 .. NumStoreIds

None == [tag |-> "None"]
Some(v) == [tag |-> "Some", val |-> v]
Ok(v) == [tag |-> "Ok", val |-> v]
Err(e) == [tag |-> "Err", err |-> e]
Unit == "()"

\* ------------------------------------------------------- ledger.rs

Digits == {"0", "1", "2", "3", "4", "5", "6", "7", "8", "9"}

DigitVal(c) ==
    CASE c = "0" -> 0 [] c = "1" -> 1 [] c = "2" -> 2 [] c = "3" -> 3
      [] c = "4" -> 4 [] c = "5" -> 5 [] c = "6" -> 6 [] c = "7" -> 7
      [] c = "8" -> 8 [] c = "9" -> 9

IsEmpty(a) == Len(a) = 0

StartsWith(a, c) == Len(a) > 0 /\ a[1] = c

Tail1(a) == SubSeq(a, 2, Len(a))

\* The digits of a, read as a natural number.
RECURSIVE DigitsVal(_)
DigitsVal(a) ==
    IF Len(a) = 0 THEN 0
    ELSE 10 * DigitsVal(SubSeq(a, 1, Len(a) - 1)) + DigitVal(a[Len(a)])

AllDigits(a) == \A i \in 1 .. Len(a) : a[i] \in Digits

DotAt(a) == IF \E i \in 1 .. Len(a) : a[i] = "."
            THEN CHOOSE i \in 1 .. Len(a) :
                    a[i] = "." /\ \A j \in 1 .. (i - 1) : a[j] # "."
            ELSE 0

\* A whole number of more than MaxRawLen digits, as hi * Limb + lo.
Limb == Pow10(8)

WideVal(a) ==
    [neg |-> FALSE,
     hi |-> DigitsVal(SubSeq(a, 1, Len(a) - 8)),
     lo |-> DigitsVal(SubSeq(a, Len(a) - 7, Len(a)))]

\* 2^53: up to it every whole number is an f64.
F64ExactLimit == [hi |-> 90071992, lo |-> 54740992]

\* The f64 nearest to the whole number w < 2^54.  Above 2^53 the f64 values are
\* the even numbers; an odd w lies half way between two of them and goes to the
\* one with the even significand, which is the multiple of 4.
F64Round(w) ==
    IF w.hi < F64ExactLimit.hi
       \/ (w.hi = F64ExactLimit.hi /\ w.lo <= F64ExactLimit.lo) THEN w
    ELSE IF w.lo % 2 = 0 THEN w
    ELSE IF (w.lo + 1) % 4 # 0 THEN [w EXCEPT !.lo = @ - 1]
    ELSE IF w.lo + 1 = Limb THEN [w EXCEPT !.hi = @ + 1, !.lo = 0]
    ELSE [w EXCEPT !.lo = @ + 1]

\* str::parse::<f64>: an optional sign, then "inf", "infinity" or "nan", or a
\* decimal numeral with at least one digit (an exponent needs "e", which is not
\* a character of the model).  No trimming: any other character is an error.
ParseUnsigned(a) ==
    IF a = <<"n", "a", "n">> THEN Ok([kind |-> "nan", v |-> 0])
    ELSE IF a = <<"i", "n", "f">> THEN Ok([kind |-> "inf", v |-> 1])
    ELSE IF AllDigits(a) /\ Len(a) > MaxRawLen
         THEN Ok([kind |-> "wide", v |-> F64Round(WideVal(a))])
    ELSE LET d == DotAt(a)
             ip == IF d = 0 THEN a ELSE SubSeq(a, 1, d - 1)
             fp == IF d = 0 THEN <<>> ELSE SubSeq(a, d + 1, Len(a))
         IN  IF AllDigits(ip) /\ AllDigits(fp) /\ Len(ip) + Len(fp) > 0
             THEN Ok([kind |-> "num",
                      v |-> DigitsVal(ip) * Pow10(Scale)
                            + DigitsVal(fp) * Pow10(Scale - Len(fp))])
             ELSE Err("ParseFloatError")

\* f * -1.0
F64Neg(f) ==
    IF f.kind = "wide" THEN [f EXCEPT !.v.neg = ~@] ELSE [f EXCEPT !.v = 0 - @]

ParseF64(a) ==
    IF StartsWith(a, "+") THEN ParseUnsigned(Tail1(a))
    ELSE IF StartsWith(a, "-")
         THEN LET r == ParseUnsigned(Tail1(a))
              IN  IF r.tag = "Ok" THEN Ok(F64Neg(r.val)) ELSE r
         ELSE ParseUnsigned(a)

\* Decimal::from_f64: None for a value that is not finite, else the value (a
\* whole number below 2^54 fits the 96 bits of a Decimal).
DecimalFromF64(f) == IF f.kind \in {"num", "wide"} THEN Some(f.v) ELSE None

ActionToString(action) == action.kind

\* Ledger::new without the negation of a Withdrawal's amount.
LedgerNewNoNegate(action, id) ==
    LET a == action.raw IN
    IF IsEmpty(a) THEN Err("EmptyAmount")
    ELSE IF StartsWith(a, "-") THEN Err("InvalidAmount")
    ELSE LET p == ParseF64(a) IN
         IF p.tag = "Err" THEN Err("ParseAmount")
         ELSE IF p.val.kind = "num" /\ p.val.v = 0 THEN Err("InvalidAmount")
         ELSE LET dec == DecimalFromF64(p.val)
              IN  IF dec.tag = "None" THEN [tag |-> "Panic"]
                  ELSE Ok([id |-> id,
                           action |-> ActionToString(action),
                           amount |-> dec.val])

\* Ledger::new without the test for a leading "-".
LedgerNewNoSignCheck(action, id) ==
    LET a == action.raw IN
    IF IsEmpty(a) THEN Err("EmptyAmount")
    ELSE LET p == ParseF64(a) IN
         IF p.tag = "Err" THEN Err("ParseAmount")
         ELSE IF p.val.kind = "num" /\ p.val.v = 0 THEN Err("InvalidAmount")
         ELSE LET amount == IF action.kind = "Deposit" THEN p.val
                            ELSE F64Neg(p.val)
                  dec == DecimalFromF64(amount)
              IN  IF dec.tag = "None" THEN [tag |-> "Panic"]
                  ELSE Ok([id |-> id,
                           action |-> ActionToString(action),
                           amount |-> dec.val])

\* Ledger::new; id is the string generate_random_string(16) returns.
LedgerNew(action, id) ==
    LET a == action.raw IN
    IF IsEmpty(a) THEN Err("EmptyAmount")
    ELSE IF StartsWith(a, "-") THEN Err("InvalidAmount")
    ELSE LET p == ParseF64(a) IN
         IF p.tag = "Err" THEN Err("ParseAmount")
         ELSE IF p.val.kind = "num" /\ p.val.v = 0 THEN Err("InvalidAmount")
         ELSE LET amount == IF action.kind = "Deposit" THEN p.val
                            ELSE F64Neg(p.val)
                  dec == DecimalFromF64(amount)
              IN  IF dec.tag = "None" THEN [tag |-> "Panic"]
                  ELSE Ok([id |-> id,
                           action |-> ActionToString(action),
                           amount |-> dec.val])

LedgerAmount(ledger) == ledger.amount

LedgersNew == [index |-> {}, collection |-> <<>>]

\* add without the look-up in the index.
LedgersAddDropsCheck(self, ledger) ==
    [self |-> [index |-> self.index \cup {ledger.id},
               collection |-> Append(self.collection, ledger)],
     result |-> Ok(Unit)]

LedgersAdd(self, ledger) ==
    LET id == ledger.id IN
    IF id \in self.index
    THEN [self |-> self, result |-> Err("DuplicateLedger")]
    ELSE [self |-> [index |-> self.index \cup {id},
                    collection |-> Append(self.collection, ledger)],
          result |-> Ok(Unit)]

LedgersLen(self) == Len(self.collection)

RECURSIVE SumSeq(_)
SumSeq(c) ==
    IF Len(c) = 0 THEN 0
    ELSE SumSeq(SubSeq(c, 1, Len(c) - 1)) + LedgerAmount(c[Len(c)])

LedgersSum(self) == SumSeq(self.collection)

\* ------------------------------------------------------ balance.rs

UpperChar(c) ==
    CASE c = "u" -> "U" [] c = "s" -> "S" [] c = "d" -> "D" [] OTHER -> c

ToUppercase(s) == [i \in 1 .. Len(s) |-> UpperChar(s[i])]

BalanceNew(currency) ==
    IF IsEmpty(currency) THEN Err("InvalidCurrency")
    ELSE Ok([currency |-> ToUppercase(currency), ledgers |-> LedgersNew])

\* Decimal::is_sign_negative.  The left operand of every addition the program
\* makes is a running total that is zero or positive, for which rust_decimal
\* yields a zero of positive sign, so the sign bit is set exactly when the
\* value is below zero.
IsSignNegative(d) == d < 0

\* mutate without the is_sign_negative check.
BalanceMutateNoCheck(self, ledger) ==
    LET r == LedgersAdd(self.ledgers, ledger)
    IN  [self |-> [self EXCEPT !.ledgers = r.self],
         result |-> Ok(LedgersSum(r.self))]

BalanceMutate(self, ledger) ==
    LET amount == LedgerAmount(ledger)
        current_balance == LedgersSum(self.ledgers)
    IN  IF IsSignNegative(current_balance + amount)
        THEN [self |-> self, result |-> Err("BalanceNotEnough")]
        ELSE LET r == LedgersAdd(self.ledgers, ledger)
                 total == LedgersSum(r.self)
             IN  [self |-> [self EXCEPT !.ledgers = r.self],
                  result |-> Ok(total)]

BalanceAmount(self) ==
    IF LedgersLen(self.ledgers) = 0 THEN 0 ELSE LedgersSum(self.ledgers)

\* ------------------------------------------------------------ state

VARIABLES
    action,     \* the Action the caller last passed to Ledger::new (None: none)
    ledger,     \* what the caller's last Ledger::new returned; None once moved
    ledgers,    \* a Ledgers the caller owns
    balance,    \* a Balance the caller owns
    result      \* what the last add or mutate returned

objvars == <<action, ledger, ledgers, balance, result>>

VARIABLES
    balances,   \* the map behind Arc<RwLock<..>>, shared by every clone
    lock,       \* the RwLock: the thread writing, the threads reading
    pc,         \* per thread: idle, or the storage call it is inside
    acct,       \* per thread: the account_id of its storage call
    local,      \* per thread: the Balance it holds (None: none)
    ent,        \* per thread: the Ledger it last passed to mutate
    mres,       \* per thread: what its last mutate returned
    sres,       \* per thread: its last storage call and what it returned
    step,       \* per thread: the operations it has started
    balances0   \* the map as the threads found it

storevars == <<balances, lock, pc, acct, local, ent, mres, sres, step, balances0>>

vars == <<action, ledger, ledgers, balance, result,
          balances, lock, pc, acct, local, ent, mres, sres, step, balances0>>

\* ------------------------------------------------------ storage.rs

Accounts == {"account_1", "account_2"}

Threads == {"t1", "t2"}

\* InMemory::new: an empty map.
InMemoryNew == [a \in Accounts |-> None]

\* InMemory::get, under the read lock.
InMemoryGet(map, account_id) ==
    LET x == map[account_id]
    IN  IF x.tag = "Some" THEN Some(x.val) ELSE None

\* insert without the contains_key check: HashMap::insert replaces.
InMemoryInsertOverwrites(map, account_id, b) ==
    [map |-> [map EXCEPT ![account_id] = Some(b)], result |-> Ok(Unit)]

\* insert with the contains_key check negated, as update has it.
InMemoryInsertNegated(map, account_id, b) ==
    IF ~(map[account_id].tag = "Some")
    THEN [map |-> map, result |-> Err("AccountAlreadyExists")]
    ELSE [map |-> [map EXCEPT ![account_id] = Some(b)], result |-> Ok(Unit)]

\* InMemory::insert, under the write lock.
InMemoryInsert(map, account_id, b) ==
    IF map[account_id].tag = "Some"
    THEN [map |-> map, result |-> Err("AccountAlreadyExists")]
    ELSE [map |-> [map EXCEPT ![account_id] = Some(b)], result |-> Ok(Unit)]

\* update without the contains_key check: HashMap::insert creates the key.
InMemoryUpdateUpserts(map, account_id, b) ==
    [map |-> [map EXCEPT ![account_id] = Some(b)], result |-> Ok(Unit)]

\* InMemory::update, under the write lock.
InMemoryUpdate(map, account_id, b) ==
    IF ~(map[account_id].tag = "Some")
    THEN [map |-> map, result |-> Err("AccountNotExists")]
    ELSE [map |-> [map EXCEPT ![account_id] = Some(b)], result |-> Ok(Unit)]

\* ------------------------------------------- callers of the entry set

Kinds == {"Deposit", "Withdrawal"}

RawAmounts ==
    {a \in {<<>>, <<"-", "1">>, <<"0">>, <<"x">>, <<"1">>,
            <<"2", ".", "5">>, <<"n", "a", "n">>, <<"0", ".", "2", "5">>} :
        Len(a) <= MaxRawLen}

Currencies == {<<"u", "s", "d">>, <<"E", "U", "R">>}

NewBalances == {BalanceNew(c).val : c \in {c \in Currencies : BalanceNew(c).tag = "Ok"}}

ObjInit ==
    /\ action = None
    /\ ledger = None
    /\ ledgers = LedgersNew
    /\ balance \in NewBalances
    /\ result = None

\* The entry-set variables while only the store is exercised.
ObjIdle ==
    /\ action = None
    /\ ledger = None
    /\ ledgers = LedgersNew
    /\ balance = BalanceNew(<<"u", "s", "d">>).val
    /\ result = None

\* let ledger = Ledger::new(action)
LedgerCreate ==
    /\ \E kind \in Kinds, raw \in RawAmounts, id \in Ids :
          /\ action' = Some([kind |-> kind, raw |-> raw])
          /\ ledger' = LedgerNew([kind |-> kind, raw |-> raw], id)
    /\ UNCHANGED <<ledgers, balance, result, storevars>>

\* ledgers.add(ledger)
Add ==
    /\ ledger.tag = "Ok"
    /\ LET r == LedgersAdd(ledgers, ledger.val)
       IN  /\ ledgers' = r.self
           /\ result' = r.result
    /\ ledger' = None
    /\ UNCHANGED <<action, balance, storevars>>

\* balance.mutate(ledger)
Mutate ==
    /\ ledger.tag = "Ok"
    /\ LET r == BalanceMutate(balance, ledger.val)
       IN  /\ balance' = r.self
           /\ result' = r.result
    /\ ledger' = None
    /\ UNCHANGED <<action, ledgers, storevars>>

StoreEntries ==
    {LedgerNew([kind |-> k, raw |-> r], id).val :
        k \in Kinds, r \in {<<"1">>, <<"2">>}, id \in StoreIds}

ThreadsIdle ==
    /\ lock = [w |-> {}, r |-> {}]
    /\ pc = [t \in Threads |-> "idle"]
    /\ acct = [t \in Threads |-> "account_1"]
    /\ ent = [t \in Threads |-> None]
    /\ mres = [t \in Threads |-> None]
    /\ sres = [t \in Threads |-> [call |-> "none", ret |-> None]]
    /\ step = [t \in Threads |-> 0]

ThreadsInit == ThreadsIdle /\ local = [t \in Threads |-> None]

Begin(t, call, a) ==
    /\ pc[t] = "idle"
    /\ pc' = [pc EXCEPT ![t] = call]
    /\ acct' = [acct EXCEPT ![t] = a]
    /\ step' = [step EXCEPT ![t] = @ + 1]

Return(t, r) ==
    /\ sres' = [sres EXCEPT ![t] = [call |-> pc[t], ret |-> r]]
    /\ pc' = [pc EXCEPT ![t] = "idle"]
    /\ UNCHANGED <<acct, step>>

\* let balance = Balance::new(currency)
NewLocal(t, currency) ==
    /\ pc[t] = "idle"
    /\ BalanceNew(currency).tag = "Ok"
    /\ local' = [local EXCEPT ![t] = Some(BalanceNew(currency).val)]
    /\ step' = [step EXCEPT ![t] = @ + 1]
    /\ UNCHANGED <<balances, lock, pc, acct, ent, mres, sres, balances0, objvars>>

\* balance.mutate(ledger) on a reference into the map instead of a clone.
MutateLocalInPlace(t, e) ==
    /\ pc[t] = "idle"
    /\ local[t].tag = "Some"
    /\ LET r == BalanceMutate(local[t].val, e)
       IN  /\ local' = [local EXCEPT ![t] = Some(r.self)]
           /\ mres' = [mres EXCEPT ![t] = r.result]
           /\ balances' = [balances EXCEPT ![acct[t]] = Some(r.self)]
    /\ ent' = [ent EXCEPT ![t] = Some(e)]
    /\ step' = [step EXCEPT ![t] = @ + 1]
    /\ UNCHANGED <<lock, pc, acct, sres, balances0, objvars>>

\* balance.mutate(ledger) on the thread's own Balance
MutateLocal(t, e) ==
    /\ pc[t] = "idle"
    /\ local[t].tag = "Some"
    /\ LET r == BalanceMutate(local[t].val, e)
       IN  /\ local' = [local EXCEPT ![t] = Some(r.self)]
           /\ mres' = [mres EXCEPT ![t] = r.result]
    /\ ent' = [ent EXCEPT ![t] = Some(e)]
    /\ step' = [step EXCEPT ![t] = @ + 1]
    /\ UNCHANGED <<balances, lock, pc, acct, sres, balances0, objvars>>

\* storage.get(a): self.balances.read() returns once no thread is writing
GetLock(t, a) ==
    /\ Begin(t, "get", a)
    /\ lock.w = {}
    /\ lock' = [lock EXCEPT !.r = @ \cup {t}]
    /\ UNCHANGED <<balances, local, ent, mres, sres, balances0, objvars>>

\* the body of get; the guard is dropped at the return
GetBody(t) ==
    /\ pc[t] = "get"
    /\ LET r == InMemoryGet(balances, acct[t])
       IN  /\ Return(t, r)
           /\ local' = [local EXCEPT ![t] = r]
    /\ lock' = [lock EXCEPT !.r = @ \ {t}]
    /\ UNCHANGED <<balances, ent, mres, balances0, objvars>>

\* storage.insert(a, balance): self.balances.write() returns once the lock is free
InsertLock(t, a) ==
    /\ Begin(t, "insert", a)
    /\ local[t].tag = "Some"
    /\ lock.w = {} /\ lock.r = {}
    /\ lock' = [lock EXCEPT !.w = {t}]
    /\ UNCHANGED <<balances, local, ent, mres, sres, balances0, objvars>>

\* The body of insert keeping the write guard when it returns an error.
InsertBodyKeepsGuard(t) ==
    /\ pc[t] = "insert"
    /\ LET r == InMemoryInsert(balances, acct[t], local[t].val)
       IN  /\ balances' = r.map
           /\ Return(t, r.result)
           /\ lock' = IF r.result.tag = "Err" THEN lock ELSE [lock EXCEPT !.w = {}]
    /\ UNCHANGED <<local, ent, mres, balances0, objvars>>

InsertBody(t) ==
    /\ pc[t] = "insert"
    /\ LET r == InMemoryInsert(balances, acct[t], local[t].val)
       IN  /\ balances' = r.map
           /\ Return(t, r.result)
    /\ lock' = [lock EXCEPT !.w = {}]
    /\ UNCHANGED <<local, ent, mres, balances0, objvars>>

\* storage.update(a, balance)
UpdateLock(t, a) ==
    /\ Begin(t, "update", a)
    /\ local[t].tag = "Some"
    /\ lock.w = {} /\ lock.r = {}
    /\ lock' = [lock EXCEPT !.w = {t}]
    /\ UNCHANGED <<balances, local, ent, mres, sres, balances0, objvars>>

UpdateBody(t) ==
    /\ pc[t] = "update"
    /\ LET r == InMemoryUpdate(balances, acct[t], local[t].val)
       IN  /\ balances' = r.map
           /\ Return(t, r.result)
    /\ lock' = [lock EXCEPT !.w = {}]
    /\ UNCHANGED <<local, ent, mres, balances0, objvars>>

\* ------------------------------------------------- specifications

\* One caller building a Ledgers with add.
LedgersInit == ObjIdle /\ ThreadsInit /\ balances = InMemoryNew /\ balances0 = balances

LedgersNext == LedgerCreate \/ Add

SpecLedgers == LedgersInit /\ [][LedgersNext]_vars

\* One caller mutating a Balance.
BalanceInit == ObjInit /\ ThreadsInit /\ balances = InMemoryNew /\ balances0 = balances

BalanceNext == LedgerCreate \/ Mutate

SpecBalance == BalanceInit /\ [][BalanceNext]_vars

\* Threads sharing one store, each making up to MaxSteps calls of its choice.
Init == ObjIdle /\ ThreadsInit /\ balances = InMemoryNew /\ balances0 = balances

CallNew(t) == step[t] < MaxSteps /\ \E c \in Currencies : NewLocal(t, c)

CallMutate(t) == step[t] < MaxSteps /\ \E e \in StoreEntries : MutateLocal(t, e)

CallGet(t) == step[t] < MaxSteps /\ \E a \in Accounts : GetLock(t, a)

CallInsert(t) == step[t] < MaxSteps /\ \E a \in Accounts : InsertLock(t, a)

CallUpdate(t) == step[t] < MaxSteps /\ \E a \in Accounts : UpdateLock(t, a)

Next ==
    \/ \E t \in Threads : CallNew(t)
    \/ \E t \in Threads : CallMutate(t)
    \/ \E t \in Threads : CallGet(t)
    \/ \E t \in Threads : CallInsert(t)
    \/ \E t \in Threads : CallUpdate(t)
    \/ \E t \in Threads : GetBody(t)
    \/ \E t \in Threads : InsertBody(t)
    \/ \E t \in Threads : UpdateBody(t)

Spec == Init /\ [][Next]_vars

\* Seeds: the balances a caller has built with Balance::new and up to
\* SeedDepth deposits (of ids 1 .. SeedDepth), and the maps insert makes of
\* them.
SeedEntries == {x \in StoreEntries : x.amount > 0 /\ x.id <= SeedDepth}

RECURSIVE SeedBalances(_)
SeedBalances(n) ==
    IF n = 0 THEN {BalanceNew(<<"u", "s", "d">>).val}
    ELSE LET prev == SeedBalances(n - 1)
         IN  prev \cup {BalanceMutate(b, e).self : b \in prev, e \in SeedEntries}

SeedMaps ==
    [Accounts -> {None} \cup {Some(b) : b \in SeedBalances(SeedDepth)}]

\* Two threads, each running get -> mutate -> update once on a store that
\* already holds accounts; a thread stops where the caller's unwrap or ? would.
CycleInit == ObjIdle /\ ThreadsInit /\ balances \in SeedMaps /\ balances0 = balances

CycleGet(t) == step[t] = 0 /\ \E a \in Accounts : GetLock(t, a)

CycleMutate(t) ==
    /\ step[t] = 1
    /\ \E e \in StoreEntries : MutateLocal(t, e)

CycleUpdate(t) ==
    /\ step[t] = 2
    /\ mres[t].tag = "Ok"
    /\ UpdateLock(t, acct[t])

CycleNext ==
    \/ \E t \in Threads : CycleGet(t)
    \/ \E t \in Threads : GetBody(t)
    \/ \E t \in Threads : CycleMutate(t)
    \/ \E t \in Threads : CycleUpdate(t)
    \/ \E t \in Threads : UpdateBody(t)

SpecCycle == CycleInit /\ [][CycleNext]_vars

\* Two threads, each holding a Balance of its own and a clone of the store,
\* each calling insert once.
InsertInit ==
    /\ ObjIdle
    /\ ThreadsIdle
    /\ local \in [Threads -> {Some(b) : b \in SeedBalances(SeedDepth)}]
    /\ balances \in SeedMaps
    /\ balances0 = balances

InsertOnce(t) == step[t] = 0 /\ \E a \in Accounts : InsertLock(t, a)

InsertNext ==
    \/ \E t \in Threads : InsertOnce(t)
    \/ \E t \in Threads : InsertBody(t)

SpecInsert == InsertInit /\ [][InsertNext]_vars

\* Two threads, each holding a new Balance and a clone of an empty store, each
\* making at most MaxSteps calls of get, insert and update.  A call blocks
\* in read() or write() until the lock admits it.
Blocked(t, call, a) ==
    /\ pc[t] = "idle"
    /\ step[t] < MaxSteps
    /\ pc' = [pc EXCEPT ![t] = call]
    /\ acct' = [acct EXCEPT ![t] = a]
    /\ step' = [step EXCEPT ![t] = @ + 1]
    /\ UNCHANGED <<balances, lock, local, ent, mres, sres, balances0, objvars>>

Admitted(t, call) ==
    /\ pc' = [pc EXCEPT ![t] = call]
    /\ UNCHANGED <<balances, acct, local, ent, mres, sres, step, balances0, objvars>>

GetCall(t) == \E a \in Accounts : Blocked(t, "get_wait", a)

InsertCall(t) ==
    local[t].tag = "Some" /\ \E a \in Accounts : Blocked(t, "insert_wait", a)

UpdateCall(t) ==
    local[t].tag = "Some" /\ \E a \in Accounts : Blocked(t, "update_wait", a)

\* self.balances.read() returns
GetAcquire(t) ==
    /\ pc[t] = "get_wait"
    /\ lock.w = {}
    /\ lock' = [lock EXCEPT !.r = @ \cup {t}]
    /\ Admitted(t, "get")

\* self.balances.write() returns
InsertAcquire(t) ==
    /\ pc[t] = "insert_wait"
    /\ lock.w = {} /\ lock.r = {}
    /\ lock' = [lock EXCEPT !.w = {t}]
    /\ Admitted(t, "insert")

UpdateAcquire(t) ==
    /\ pc[t] = "update_wait"
    /\ lock.w = {} /\ lock.r = {}
    /\ lock' = [lock EXCEPT !.w = {t}]
    /\ Admitted(t, "update")

LiveInit ==
    /\ ObjIdle
    /\ ThreadsIdle
    /\ local = [t \in Threads |-> Some(BalanceNew(<<"u", "s", "d">>).val)]
    /\ balances = InMemoryNew
    /\ balances0 = balances

LiveNext ==
    \/ \E t \in Threads : GetCall(t)
    \/ \E t \in Threads : InsertCall(t)
    \/ \E t \in Threads : UpdateCall(t)
    \/ \E t \in Threads : GetAcquire(t)
    \/ \E t \in Threads : InsertAcquire(t)
    \/ \E t \in Threads : UpdateAcquire(t)
    \/ \E t \in Threads : GetBody(t)
    \/ \E t \in Threads : InsertBody(t)
    \/ \E t \in Threads : UpdateBody(t)

\* A thread that can take a step of a call it has made takes it: the threads
\* are scheduled by the operating system and the lock wakes its waiters.
LiveFairness ==
    \A t \in Threads :
        /\ WF_vars(GetAcquire(t)) /\ WF_vars(GetBody(t))
        /\ WF_vars(InsertAcquire(t)) /\ WF_vars(InsertBody(t))
        /\ WF_vars(UpdateAcquire(t)) /\ WF_vars(UpdateBody(t))

SpecLive == LiveInit /\ [][LiveNext]_vars /\ LiveFairness

\* One call of Ledger::new on an Action chosen up front: every string of at
\* most MaxRawLen characters of Chars and the whole numbers 2^53, 2^53 + 1 and
\* 2^53 + 3, for either kind.
Chars == {"-", "+", ".", "0", "1", "5", "x", "n", "a", "i", "f"}

AllRaws == UNION {[1 .. n -> Chars] : n \in 0 .. MaxRawLen}

WideRaws ==
    {<<"9", "0", "0", "7", "1", "9", "9", "2", "5", "4", "7", "4", "0", "9", "9", c>> :
        c \in {"2", "3", "5"}}

NewInputs == AllRaws \cup WideRaws

NewInit ==
    /\ action \in {Some([kind |-> k, raw |-> r]) : k \in Kinds, r \in NewInputs}
    /\ ledger = None
    /\ ledgers = LedgersNew
    /\ balance = BalanceNew(<<"u", "s", "d">>).val
    /\ result = None
    /\ ThreadsInit /\ balances = InMemoryNew /\ balances0 = balances

LedgerCreateGiven ==
    /\ action.tag = "Some"
    /\ ledger = None
    /\ \E id \in Ids : ledger' = LedgerNew(action.val, id)
    /\ UNCHANGED <<action, ledgers, balance, result, storevars>>

NewNext == LedgerCreateGiven

SpecLedgerNew == NewInit /\ [][NewNext]_vars

\* A caller that fills one Entry Set: its own Ledgers through add, or the one
\* inside its Balance through mutate.
EntryAdd == LedgersLen(balance.ledgers) = 0 /\ Add

EntryMutate == LedgersLen(ledgers) = 0 /\ Mutate

EntryNext == LedgerCreate \/ EntryAdd \/ EntryMutate

SpecEntrySet == LedgersInit /\ [][EntryNext]_vars

\* ----------------------------------------------------------- claims

\* C2: a mutate whose entry would take the sum below zero returns
\* BalanceNotEnough and leaves the Entry Set as it was: collection, index,
\* length and amount are those of before the call.
C2_RejectedMutateChangesNothing ==
    [][(Mutate /\ LedgersSum(balance.ledgers) + ledger.val.amount < 0)
        => /\ result' = Err("BalanceNotEnough")
           /\ balance'.ledgers.collection = balance.ledgers.collection
           /\ balance'.ledgers.index = balance.ledgers.index
           /\ LedgersLen(balance'.ledgers) = LedgersLen(balance.ledgers)
           /\ BalanceAmount(balance') = BalanceAmount(balance)]_vars

\* A withdrawal was rejected on a balance that holds entries.
C2_Witness ==
    /\ result = Err("BalanceNotEnough")
    /\ LedgersLen(balance.ledgers) > 0

\* C3: whatever deposits and withdrawals were passed to mutate, accepted or
\* rejected, with fresh or repeated ids, amount() is never negative.
C3_AmountNeverNegative == BalanceAmount(balance) >= 0

\* Entries were accepted, a withdrawal among them, one took the amount to
\* exactly zero, and a later mutate was rejected.
C3_Witness ==
    /\ LedgersLen(balance.ledgers) >= 2
    /\ \E i \in 1 .. LedgersLen(balance.ledgers) :
          balance.ledgers.collection[i].action = "Withdrawal"
    /\ BalanceAmount(balance) = 0
    /\ result.tag = "Err"

\* C4: a mutate with an entry whose id is already in the Entry Set, and whose
\* amount keeps the sum at or above zero, fails with DuplicateLedger and
\* leaves the Entry Set unchanged.
C4_DuplicateIsReported ==
    [][(/\ Mutate
        /\ ledger.val.id \in balance.ledgers.index
        /\ LedgersSum(balance.ledgers) + ledger.val.amount >= 0)
        => /\ result' = Err("DuplicateLedger")
           /\ balance'.ledgers = balance.ledgers]_vars

\* C5: add fails with DuplicateLedger exactly when the entry's id is in the
\* index, and then changes neither collection nor index; otherwise it
\* succeeds, the entry becomes the last element, the earlier ones keep their
\* places and the length grows by one.
C5_AddContract ==
    [][Add =>
        IF ledger.val.id \in ledgers.index
        THEN /\ result' = Err("DuplicateLedger")
             /\ ledgers'.collection = ledgers.collection
             /\ ledgers'.index = ledgers.index
        ELSE /\ result' = Ok(Unit)
             /\ LedgersLen(ledgers') = LedgersLen(ledgers) + 1
             /\ ledgers'.collection[LedgersLen(ledgers')] = ledger.val
             /\ \A i \in 1 .. LedgersLen(ledgers) :
                   ledgers'.collection[i] = ledgers.collection[i]
             /\ ledgers'.index = ledgers.index \cup {ledger.val.id}]_vars

\* Two entries of one id were added: the first went in, the second was
\* refused, and the length is 1.
C5_Witness ==
    /\ result = Err("DuplicateLedger")
    /\ LedgersLen(ledgers) = 1

\* C6: a mutate that succeeds returns the sum before the call plus the
\* entry's amount, and amount() read next equals the returned total.
C6_ReturnedTotal ==
    [][(Mutate /\ result'.tag = "Ok")
        => /\ result'.val = LedgersSum(balance.ledgers) + ledger.val.amount
           /\ BalanceAmount(balance') = result'.val]_vars

C1_AtMostOneWithdrawalAccepted ==
    \A t1, t2 \in Threads :
        (/\ t1 # t2
         /\ ent[t1].tag = "Some" /\ ent[t2].tag = "Some"
         /\ acct[t1] = acct[t2]
         /\ balances0[acct[t1]].tag = "Some"
         /\ ent[t1].val.id # ent[t2].val.id
         /\ ent[t1].val.id \notin balances0[acct[t1]].val.ledgers.index
         /\ ent[t2].val.id \notin balances0[acct[t1]].val.ledgers.index
         /\ ent[t1].val.amount < 0 /\ ent[t2].val.amount < 0
         /\ LET start == BalanceAmount(balances0[acct[t1]].val)
            IN  /\ start + ent[t1].val.amount >= 0
                /\ start + ent[t2].val.amount >= 0
                /\ start + ent[t1].val.amount + ent[t2].val.amount < 0)
        => ~(mres[t1].tag = "Ok" /\ mres[t2].tag = "Ok")

\* C7: insert of an account that is present fails with AccountAlreadyExists
\* and leaves the whole map as it was; insert of an absent account succeeds
\* and a get of it then returns the inserted balance.
C7_InsertContract ==
    [][\A t \in Threads : InsertBody(t) =>
        IF balances[acct[t]].tag = "Some"
        THEN /\ sres'[t].ret = Err("AccountAlreadyExists")
             /\ balances' = balances
        ELSE /\ sres'[t].ret = Ok(Unit)
             /\ InMemoryGet(balances', acct[t]) = Some(local[t].val)]_vars

\* An insert was refused for an account that holds another balance than the
\* one offered, and still holds it.
C7_Witness ==
    \E t \in Threads :
        /\ pc[t] = "idle"
        /\ sres[t] = [call |-> "insert", ret |-> Err("AccountAlreadyExists")]
        /\ balances[acct[t]].tag = "Some"
        /\ balances[acct[t]] # local[t]

\* C8: update of an absent account fails with AccountNotExists, changes
\* nothing and does not create the account; update of a present account
\* succeeds, a get of it then returns the supplied balance, and no other
\* account's balance changes.
C8_UpdateContract ==
    [][\A t \in Threads : UpdateBody(t) =>
        IF balances[acct[t]].tag = "None"
        THEN /\ sres'[t].ret = Err("AccountNotExists")
             /\ balances' = balances
             /\ InMemoryGet(balances', acct[t]) = None
        ELSE /\ sres'[t].ret = Ok(Unit)
             /\ InMemoryGet(balances', acct[t]) = Some(local[t].val)
             /\ \A a \in Accounts \ {acct[t]} : balances'[a] = balances[a]]_vars

\* An update has replaced the balance another thread had inserted by a
\* different one.
C8_Witness ==
    \E t, u \in Threads :
        /\ pc[t] = "idle"
        /\ sres[t] = [call |-> "update", ret |-> Ok(Unit)]
        /\ balances[acct[t]] = local[t]
        /\ sres[u] = [call |-> "insert", ret |-> Ok(Unit)]
        /\ acct[u] = acct[t]
        /\ local[u] # local[t]

\* C9: two threads insert two different accounts, both absent at the start:
\* once both calls have returned, both returned Ok and a get of each account
\* returns the balance inserted for it.
C9_DistinctInsertsBothLand ==
    \A t1, t2 \in Threads :
        (/\ t1 # t2
         /\ pc[t1] = "idle" /\ pc[t2] = "idle"
         /\ sres[t1].call = "insert" /\ sres[t2].call = "insert"
         /\ acct[t1] # acct[t2]
         /\ balances0[acct[t1]].tag = "None"
         /\ balances0[acct[t2]].tag = "None")
        => /\ sres[t1].ret = Ok(Unit)
           /\ sres[t2].ret = Ok(Unit)
           /\ InMemoryGet(balances, acct[t1]) = local[t1]
           /\ InMemoryGet(balances, acct[t2]) = local[t2]

\* Both inserts have returned, on different accounts of a store that was
\* empty, with different balances.
C9_Witness ==
    /\ \A t \in Threads : pc[t] = "idle" /\ sres[t].call = "insert"
    /\ acct["t1"] # acct["t2"]
    /\ local["t1"] # local["t2"]
    /\ \A a \in Accounts : balances0[a].tag = "None"

\* The call of Ledger::new on the chosen Action has returned.
NewReturned == action.tag = "Some" /\ ledger # None

\* C11: every raw amount that begins with "-" makes Ledger::new fail with
\* InvalidAmount, for a Deposit and for a Withdrawal, whatever follows the "-":
\* never ParseAmount, never an entry.
C11_LeadingMinusIsInvalidAmount ==
    (NewReturned /\ StartsWith(action.val.raw, "-"))
        => ledger = Err("InvalidAmount")

\* A Withdrawal of "-" followed by something that is no number was rejected
\* with InvalidAmount.
C11_Witness ==
    /\ NewReturned
    /\ action.val.kind = "Withdrawal"
    /\ StartsWith(action.val.raw, "-")
    /\ Len(action.val.raw) > 1
    /\ ParseF64(action.val.raw).tag = "Err"
    /\ ledger = Err("InvalidAmount")

\* a is a decimal number: an optional "+", then digits with at most one ".",
\* at least one digit among them.
IsDecimalNumber(a) ==
    LET b == IF StartsWith(a, "+") THEN Tail1(a) ELSE a IN
    /\ \A i \in 1 .. Len(b) : b[i] \in Digits \cup {"."}
    /\ Cardinality({i \in 1 .. Len(b) : b[i] = "."}) <= 1
    /\ \E i \in 1 .. Len(b) : b[i] \in Digits

\* C12: every non-empty raw amount without a leading "-" that is not a decimal
\* number makes Ledger::new return ParseAmount; the failure is a returned
\* result, never a panic.
C12_NonNumericIsParseAmount ==
    (/\ NewReturned
     /\ ~IsEmpty(action.val.raw)
     /\ ~StartsWith(action.val.raw, "-")
     /\ ~IsDecimalNumber(action.val.raw))
        => ledger = Err("ParseAmount")

\* The ids of the collection are the index, and no id is in the collection
\* twice.
EntrySetConsistent(l) ==
    /\ {l.collection[i].id : i \in 1 .. Len(l.collection)} = l.index
    /\ \A i, j \in 1 .. Len(l.collection) :
          l.collection[i].id = l.collection[j].id => i = j

\* C13: after any sequence of add calls, successful or failed, and of
\* Balance::mutate calls, the ids held in an Entry Set's collection are exactly
\* its index and no id occurs twice in the collection, so that each id
\* contributes to sum() at most once.
C13_IndexIsCollectionIds ==
    EntrySetConsistent(ledgers) /\ EntrySetConsistent(balance.ledgers)

\* An add has failed on an Entry Set that holds two entries.
C13_Witness ==
    /\ result = Err("DuplicateLedger")
    /\ LedgersLen(ledgers) >= 2

\* C14: an account key only moves from absent to present.  A present account
\* stays present; an absent account becomes present only in the step in which
\* an insert of it returns Ok, and is present after that step; get returns a
\* Balance exactly for a present account, so get and a failed update never
\* create one.
C14_AbsentToPresentOnly ==
    [][/\ \A a \in Accounts :
             balances[a].tag = "Some" => balances'[a].tag = "Some"
       /\ \A a \in Accounts :
             (balances[a] = None /\ balances'[a].tag = "Some")
                 => \E t \in Threads :
                       /\ pc[t] = "insert" /\ acct[t] = a
                       /\ sres'[t] = [call |-> "insert", ret |-> Ok(Unit)]
       /\ \A t \in Threads :
             (pc[t] = "insert" /\ pc'[t] = "idle" /\ sres'[t].ret = Ok(Unit))
                 => balances'[acct[t]].tag = "Some"
       /\ \A t \in Threads :
             (pc[t] = "get" /\ pc'[t] = "idle")
                 => (sres'[t].ret.tag = "Some" <=> balances[acct[t]].tag = "Some")
      ]_vars

\* One thread's insert has made an account present while another thread's
\* update of an account never inserted has failed and left it absent.
C14_Witness ==
    \E t, u \in Threads :
        /\ sres[t] = [call |-> "insert", ret |-> Ok(Unit)]
        /\ balances[acct[t]].tag = "Some"
        /\ sres[u] = [call |-> "update", ret |-> Err("AccountNotExists")]
        /\ balances[acct[u]] = None

RECURSIVE StripLeadingZeros(_)
StripLeadingZeros(d) ==
    IF Len(d) > 0 /\ d[1] = "0" THEN StripLeadingZeros(Tail1(d)) ELSE d

RECURSIVE StripTrailingZeros(_)
StripTrailingZeros(d) ==
    IF Len(d) > 0 /\ d[Len(d)] = "0"
    THEN StripTrailingZeros(SubSeq(d, 1, Len(d) - 1)) ELSE d

\* The magnitude a decimal number states, read off its text: the digits before
\* the "." without leading zeros and those after it without trailing zeros.
RawMagnitude(a) ==
    LET b == IF StartsWith(a, "+") THEN Tail1(a) ELSE a
        d == DotAt(b)
    IN  [ip |-> StripLeadingZeros(IF d = 0 THEN b ELSE SubSeq(b, 1, d - 1)),
         fp |-> StripTrailingZeros(IF d = 0 THEN <<>> ELSE SubSeq(b, d + 1, Len(b)))]

ZeroMagnitude == [ip |-> <<>>, fp |-> <<>>]

RECURSIVE NatDigits(_)
NatDigits(n) ==
    IF n = 0 THEN <<>>
    ELSE Append(NatDigits(n \div 10), CHOOSE c \in Digits : DigitVal(c) = n % 10)

RECURSIVE PadLeft(_, _)
PadLeft(d, n) == IF Len(d) >= n THEN d ELSE PadLeft(<<"0">> \o d, n)

\* The amount of the ledger Ledger::new returned for raw amount a, as a sign
\* and the digits of its absolute value.
AmountIsNegative(amount, a) ==
    IF Len(a) > MaxRawLen THEN amount.neg ELSE amount < 0

AmountMagnitude(amount, a) ==
    IF Len(a) > MaxRawLen
    THEN [ip |-> StripLeadingZeros(NatDigits(amount.hi)
                                   \o PadLeft(NatDigits(amount.lo), 8)),
          fp |-> <<>>]
    ELSE LET m == IF amount < 0 THEN 0 - amount ELSE amount
         IN  [ip |-> NatDigits(m \div Pow10(Scale)),
              fp |-> StripTrailingZeros(PadLeft(NatDigits(m % Pow10(Scale)), Scale))]

\* C15: every Ledger that Ledger::new returns has a non-zero amount, positive
\* for a Deposit and negative for a Withdrawal, whose absolute value is the
\* magnitude the raw amount states; a raw amount that states zero is rejected
\* with InvalidAmount for both kinds.
C15_SignAndMagnitude ==
    NewReturned =>
        LET a == action.val.raw IN
        /\ ledger.tag = "Ok" =>
              /\ AmountMagnitude(ledger.val.amount, a) # ZeroMagnitude
              /\ AmountIsNegative(ledger.val.amount, a)
                    <=> action.val.kind = "Withdrawal"
              /\ AmountMagnitude(ledger.val.amount, a) = RawMagnitude(a)
        /\ (IsDecimalNumber(a) /\ RawMagnitude(a) = ZeroMagnitude)
              => ledger = Err("InvalidAmount")

\* C16: the Balance get returns is a detached snapshot.  get returns what the
\* store holds; the store changes only in the step in which an update (or
\* insert) returns Ok, and then to the Balance that call was given, so that a
\* mutate of a snapshot changes nothing in the store and every thread's get
\* returns the old Balance until update(account, mutated) has succeeded and the
\* mutated one after it.
C16_SnapshotIsDetached ==
    [][/\ \A t \in Threads :
             (pc[t] = "get" /\ pc'[t] = "idle")
                 => (sres'[t].ret = balances[acct[t]] /\ local'[t] = balances[acct[t]])
       /\ balances' # balances
             => \E t \in Threads :
                   /\ pc[t] \in {"insert", "update"} /\ pc'[t] = "idle"
                   /\ sres'[t].ret = Ok(Unit)
                   /\ balances' = [balances EXCEPT ![acct[t]] = local[t]]
       /\ \A t \in Threads :
             (pc[t] = "update" /\ pc'[t] = "idle" /\ sres'[t].ret = Ok(Unit))
                 => InMemoryGet(balances', acct[t]) = local[t]
      ]_vars

\* One thread holds a snapshot it has mutated and not yet written back, and
\* the get of the other thread on the same account has returned the Balance
\* the store still holds.
C16_Witness ==
    \E t, u \in Threads :
        /\ t # u /\ acct[t] = acct[u]
        /\ step[t] = 2 /\ mres[t].tag = "Ok"
        /\ local[t] # balances[acct[t]]
        /\ balances[acct[t]] = balances0[acct[t]]
        /\ sres[u].call = "get" /\ sres[u].ret = balances[acct[u]]
        /\ sres[u].ret.tag = "Some"

\* The lock is held by exactly the threads that are inside a call.
GuardsMatchCalls ==
    /\ lock.r = {t \in Threads : pc[t] = "get"}
    /\ lock.w = {t \in Threads : pc[t] \in {"insert", "update"}}

\* C17: under fair scheduling every call of get, insert and update that a
\* thread makes returns, with success or with an error, and the lock is held
\* only by threads inside a call: it is released on every exit path, so no
\* thread waits for ever and no deadlock is reached.
C17_EveryCallReturns ==
    /\ \A t \in Threads : (pc[t] # "idle") ~> (pc[t] = "idle")
    /\ []GuardsMatchCalls

\* A thread waits in write() for an insert while the other thread holds the
\* write guard inside an update that is about to return AccountNotExists.
C17_Witness ==
    \E t, u \in Threads :
        /\ pc[t] = "insert_wait"
        /\ pc[u] = "update" /\ lock.w = {u}
        /\ balances[acct[u]] = None

\* C18: when two threads have each completed get -> mutate(deposit) -> update
\* on one account, with deposits of distinct ids that the account did not
\* hold, the stored Balance holds both entries and its amount is the initial
\* amount plus both deposits: no mutation is lost.
C18_NoLostDeposit ==
    \A t1, t2 \in Threads :
        (/\ t1 # t2
         /\ acct[t1] = acct[t2]
         /\ balances0[acct[t1]].tag = "Some"
         /\ sres[t1] = [call |-> "update", ret |-> Ok(Unit)]
         /\ sres[t2] = [call |-> "update", ret |-> Ok(Unit)]
         /\ ent[t1].val.amount > 0 /\ ent[t2].val.amount > 0
         /\ ent[t1].val.id # ent[t2].val.id
         /\ ent[t1].val.id \notin balances0[acct[t1]].val.ledgers.index
         /\ ent[t2].val.id \notin balances0[acct[t1]].val.ledgers.index)
        => LET b == balances[acct[t1]].val
           IN  /\ {ent[t1].val.id, ent[t2].val.id} \subseteq b.ledgers.index
               /\ BalanceAmount(b) = BalanceAmount(balances0[acct[t1]].val)
                                       + ent[t1].val.amount + ent[t2].val.amount

\* C19: when every Balance passed to update comes from Balance::new followed
\* only by mutate calls on snapshots that get returned, the amount of every
\* stored Balance is non-negative in every reachable state, under every
\* interleaving.
C19_StoredAmountsNonNegative ==
    \A a \in Accounts :
        balances[a].tag = "Some" => BalanceAmount(balances[a].val) >= 0

\* Both threads have written back a withdrawal on one account, each affordable
\* against the Balance stored at the start and not both together.
C19_Witness ==
    \E t1, t2 \in Threads :
        /\ t1 # t2 /\ acct[t1] = acct[t2]
        /\ sres[t1] = [call |-> "update", ret |-> Ok(Unit)]
        /\ sres[t2] = [call |-> "update", ret |-> Ok(Unit)]
        /\ ent[t1].val.amount < 0 /\ ent[t2].val.amount < 0
        /\ ent[t1].val.id # ent[t2].val.id
        /\ BalanceAmount(balances0[acct[t1]].val)
              + ent[t1].val.amount + ent[t2].val.amount < 0

\* Both threads have returned from an insert of one account that was absent
\* at the start, each with a Balance different from the other's.
BothInsertedSameAbsent(t1, t2) ==
    /\ t1 # t2 /\ acct[t1] = acct[t2]
    /\ balances0[acct[t1]] = None
    /\ sres[t1].call = "insert" /\ sres[t2].call = "insert"
    /\ local[t1] # local[t2]

\* C20: when two threads concurrently insert one previously absent account
\* with different balances, exactly one insert succeeds, the other fails with
\* AccountAlreadyExists, and the stored Balance is the one the successful
\* insert supplied.
C20_OneInsertWins ==
    \A t1, t2 \in Threads :
        BothInsertedSameAbsent(t1, t2)
            => \E w, l \in {t1, t2} :
                  /\ w # l
                  /\ sres[w].ret = Ok(Unit)
                  /\ sres[l].ret = Err("AccountAlreadyExists")
                  /\ balances[acct[w]] = local[w]

\* The race has been run: the thread that asked second for the lock lost.
C20_Witness ==
    \E t1, t2 \in Threads :
        /\ BothInsertedSameAbsent(t1, t2)
        /\ sres[t2].ret = Err("AccountAlreadyExists")
        /\ balances[acct[t1]] = local[t1]

====
